---- MODULE Spec2Model ----
(***************************************************************************)
(* Model of app.py, the Azure Text Analytics dashboard script.             *)
(*                                                                         *)
(* The script is run top to bottom by the UI framework each time the user  *)
(* changes a widget or presses the button.  One run in which the button is *)
(* pressed is an analysis cycle: it builds a client, then issues the five  *)
(* remote operations one after the other, writing widgets to the page as   *)
(* each one returns.  A run is modelled as running to its end before the   *)
(* next widget event is taken, which is the blocking model of section 5 of *)
(* the specification.                                                      *)
(***************************************************************************)
EXTENDS Integers, Sequences, FiniteSets, TLC

VARIABLES
    user_text,   \* app.py:51   value of the text area
    endpoint,    \* app.py:22   value of the sidebar "Endpoint" input
    api_key,     \* app.py:23   value of the sidebar "API Key" input
    pc,          \* position of the script run: "idle", "try", "ready", "await", "done"
    step,        \* which of the five operations the run is at (0: none)
    client,      \* app.py:72   the TextAnalyticsClient of the run
    documents,   \* app.py:77   the documents list of the run
    inflight,    \* remote operations issued and not yet returned
    calls,       \* remote calls issued by the run, in order
    result,      \* app.py:81,109,125,138,159  what each call returned (or raised)
    exc,         \* the exception raised in the run, if any
    display,     \* the widgets written to the col2 page by the run, in order
    mock,        \* the remote service, when it is a deterministic function
    log          \* the finished cycles of a behaviour against the mock

vars == <<user_text, endpoint, api_key, pc, step, client, documents, inflight,
          calls, result, exc, display, mock, log>>

(***************************************************************************)
(* Bounds                                                                  *)
(***************************************************************************)
\* longest key-phrase / entity list the provider returns in the model
MaxList == 11
\* longest PII entity list the provider returns in the model
MaxPii == 2

\* the display cap of the [:10] slices
Cap == 10

Min(a, b) == IF a < b THEN a ELSE b

(***************************************************************************)
(* Inputs                                                                  *)
(***************************************************************************)
Texts == {"", " ", "I love it"}
Endpoints == {"", "https://e"}
Keys == {"", "k"}

\* Python truthiness of a str
Truthy(s) == s # ""

GuardTextOnly(text, ep, key) == Truthy(text)
\* app.py:65   if user_text and endpoint and api_key
Guard(text, ep, key) == Truthy(text) /\ Truthy(ep) /\ Truthy(key)

(***************************************************************************)
(* The remote service                                                      *)
(***************************************************************************)
Ops == <<"analyze_sentiment", "extract_key_phrases", "detect_language",
         "recognize_entities", "recognize_pii_entities">>
Steps == 1..5

Causes == {"Auth", "Network", "Remote"}

\* str(e) of the exception the client raises for each cause
ExcText(cause) ==
    CASE cause = "Auth" -> "(401) Access denied due to invalid subscription key"
      [] cause = "Network" -> "Cannot connect to host"
      [] OTHER -> "(InternalServerError) Internal server error"

Labels == {"positive", "negative", "neutral", "mixed"}

\* confidence scores in thousandths: <<positive, negative, neutral>>
ScoresOf(label) ==
    CASE label = "positive" -> <<950, 20, 30>>
      [] label = "negative" -> <<15, 975, 10>>
      [] label = "neutral" -> <<45, 55, 900>>
      [] OTHER -> <<495, 500, 5>>

\* A response is what a call returns (ok) or the exception it raises.
Resp(ok, cause, label, list, text) ==
    [ok |-> ok, cause |-> cause, label |-> label, list |-> list, text |-> text]
NoResp == Resp(FALSE, "", "", <<>>, "")
Raise(cause) == Resp(FALSE, cause, "", <<>>, "")

PhraseList(n) == [i \in 1..n |-> i]
Categories == <<"Person", "Location", "Organization">>
EntityList(n) ==
    [i \in 1..n |-> [text |-> i, category |-> Categories[(i % 3) + 1],
                     confidence_score |-> 1000 - 5 * i]]
PiiList(n) == [i \in 1..n |-> [category |-> "Person", text |-> i]]

OkResponses(k, labels, lens, piilens) ==
    CASE k = 1 -> {Resp(TRUE, "", l, ScoresOf(l), "") : l \in labels}
      [] k = 2 -> {Resp(TRUE, "", "", PhraseList(n), "") : n \in lens}
      [] k = 3 -> {Resp(TRUE, "", "English", <<"en", 990>>, "")}
      [] k = 4 -> {Resp(TRUE, "", "", EntityList(n), "") : n \in lens}
      [] OTHER -> {Resp(TRUE, "", "", PiiList(n), "***") : n \in piilens}

Responses(k) ==
    OkResponses(k, Labels, 0..MaxList, 0..MaxPii) \cup {Raise(c) : c \in Causes}

\* the deterministic services: one fixed response per operation
DetResponses(k) ==
    OkResponses(k, {"positive", "mixed"}, {0, MaxList}, {0, MaxPii}) \cup {Raise(c) : c \in Causes}
DetServices ==
    {<<r1, r2, r3, r4, r5>> : r1 \in DetResponses(1), r2 \in DetResponses(2),
                              r3 \in DetResponses(3), r4 \in DetResponses(4),
                              r5 \in DetResponses(5)}

\* accessors, named as the SDK attributes the script reads
sentiment(res) == res.label
confidence_scores(res) == res.list
key_phrases(res) == res.list
primary_language(res) ==
    [name |-> res.label, iso6391_name |-> res.list[1], confidence_score |-> res.list[2]]
entities(res) == res.list
redacted_text(res) == res.text

(***************************************************************************)
(* Rendering                                                               *)
(***************************************************************************)
Rec(w, msg, items) == [w |-> w, msg |-> msg, items |-> items]

\* f"{x:.0%}" of x = p/1000: the percentage rounded to an integer, ties to even
Pct(p) ==
    LET q == p \div 10
        r == p % 10
    IN  IF r < 5 THEN q
        ELSE IF r > 5 THEN q + 1
        ELSE IF q % 2 = 0 THEN q ELSE q + 1

\* app.py:87-92  sentiment_emoji.get(sentiment, neutral face)
SentimentEmoji(s) ==
    CASE s = "positive" -> "smile"
      [] s = "negative" -> "sad"
      [] s = "neutral" -> "neutral-face"
      [] s = "mixed" -> "thinking"
      [] OTHER -> "neutral-face"

\* str.upper()
Upper(s) ==
    CASE s = "positive" -> "POSITIVE"
      [] s = "negative" -> "NEGATIVE"
      [] s = "neutral" -> "NEUTRAL"
      [] s = "mixed" -> "MIXED"
      [] OTHER -> s

Rule == Rec("markdown", "---", <<>>)

\* the st.subheader written before each call
SubheaderText == <<"Sentiment Analysis", "Key Phrases", "Language",
                   "Named Entities", "Personal Information (PII)">>
Subheader(k) == Rec("subheader", SubheaderText[k], <<>>)

TruncateOffByOne(list) == SubSeq(list, 1, Min(Cap + 1, Len(list)))
\* the slice [:10]
Truncate(list) == SubSeq(list, 1, Min(Cap, Len(list)))

RenderSentiment(res) ==
    LET scores == confidence_scores(res)
    IN  << Rec("markdown", "### " \o SentimentEmoji(sentiment(res)) \o " "
                            \o Upper(sentiment(res)), <<>>),
           Rec("metric", "Positive", <<Pct(scores[1])>>),
           Rec("metric", "Negative", <<Pct(scores[2])>>),
           Rec("metric", "Neutral", <<Pct(scores[3])>>),
           Rule >>

Span(phrase) == <<"span", phrase>>
RenderKeyPhrases(res) ==
    LET shown == Truncate(key_phrases(res))
    IN  << IF key_phrases(res) # <<>>
           THEN Rec("markdown", "phrases_html", [i \in 1..Len(shown) |-> Span(shown[i])])
           ELSE Rec("info", "No key phrases detected", <<>>),
           Rule >>

RenderLanguage(res) ==
    LET lang == primary_language(res)
    IN  << Rec("info", lang.name \o " (" \o lang.iso6391_name \o ")", <<>>),
           Rec("info", "Confidence", <<Pct(lang.confidence_score)>>),
           Rule >>

EntityRow(entity) ==
    [Entity |-> entity.text, Category |-> entity.category,
     Confidence |-> Pct(entity.confidence_score)]
RenderEntities(res) ==
    LET shown == Truncate(entities(res))
    IN  << IF entities(res) # <<>>
           THEN Rec("dataframe", "entity_data", [i \in 1..Len(shown) |-> EntityRow(shown[i])])
           ELSE Rec("info", "No entities detected", <<>>),
           Rule >>

PiiRow(entity) == [Type |-> entity.category, Text |-> entity.text]
PiiBranchAlwaysDetected(list) == "Detected"
\* app.py:161  if pii_result.entities
PiiBranch(list) == IF list # <<>> THEN "Detected" ELSE "None"
RenderPii(res) ==
    IF PiiBranch(entities(res)) = "Detected"
    THEN << Rec("warning", "PII entities detected", <<Len(entities(res))>>),
            Rec("dataframe", "pii_data",
                [i \in 1..Len(entities(res)) |-> PiiRow(entities(res)[i])]),
            Rec("code", redacted_text(res), <<>>) >>
    ELSE << Rec("success", "No personal information detected", <<>>) >>

Render(k, res) ==
    CASE k = 1 -> RenderSentiment(res)
      [] k = 2 -> RenderKeyPhrases(res)
      [] k = 3 -> RenderLanguage(res)
      [] k = 4 -> RenderEntities(res)
      [] OTHER -> RenderPii(res)

PiiUnavailable == Rec("info", "PII detection not available for this language", <<>>)
CredentialsHint == Rec("info", "Make sure your credentials are correct", <<>>)
ErrorRecNoText(res) == Rec("error", "Error: ", <<>>)
\* app.py:181  st.error(f"Error: {str(e)}")
ErrorRec(res) == Rec("error", "Error: " \o ExcText(res.cause), <<>>)

OnOuterExceptReplace(shown, res) == <<ErrorRec(res), CredentialsHint>>
\* app.py:180-182  the outer handler writes after what is already on the page
OnOuterExcept(shown, res) == shown \o <<ErrorRec(res), CredentialsHint>>

OnInnerExceptRaise(shown) == shown \o <<PiiUnavailable, Rec("error", "Error", <<>>), CredentialsHint>>
\* app.py:177-178  the bare except around the PII step
OnInnerExcept(shown) == shown \o <<PiiUnavailable>>

HandlerAllInner(k) == "inner"
HandlerAllOuter(k) == "outer"
\* which except clause catches an exception raised by step k's call
Handler(k) == IF k = 5 THEN "inner" ELSE "outer"

NextStepRetry(k, ok) == IF ok /\ k < 5 THEN k + 1 ELSE IF ok THEN 0 ELSE k
\* the statement after step k's call: the next section on return, the end of
\* the run on an exception or after the last section
NextStep(k, ok) == IF ok /\ k < 5 THEN k + 1 ELSE 0

\* app.py:184-187 and 67: what a run without a button press writes
IdleRender(text, ep, key) ==
    IF Guard(text, ep, key) THEN <<Rec("button", "Analyze Text", <<>>)>>
    ELSE IF Truthy(text)
         THEN <<Rec("warning", "Please enter Azure credentials in the sidebar", <<>>)>>
         ELSE <<Rec("info", "Enter text to analyze", <<>>)>>

NoClient == [endpoint |-> "", credential |-> ""]
\* app.py:72-75
Client(ep, key) == [endpoint |-> ep, credential |-> key]

DocumentsAccumulated(text) == Append(documents, text)
\* app.py:77  documents = [user_text]
Documents(text) == <<text>>

NoResults == [k \in Steps |-> NoResp]
NoExc == [step |-> 0, cause |-> ""]

(***************************************************************************)
(* The state machine                                                       *)
(***************************************************************************)
DefaultMock == [k \in Steps |-> Raise("Remote")]

InitCore ==
    /\ user_text = ""
    /\ endpoint = ""
    /\ api_key = ""
    /\ pc = "idle"
    /\ step = 0
    /\ client = NoClient
    /\ documents = <<>>
    /\ inflight = {}
    /\ calls = <<>>
    /\ result = NoResults
    /\ exc = NoExc
    /\ display = IdleRender("", "", "")
    /\ log = {}

Init == InitCore /\ mock = DefaultMock

InitDet == InitCore /\ mock \in DetServices

\* The user edits a widget while no run is in progress: the script is run
\* again with the button not pressed.
SetInput ==
    /\ pc \in {"idle", "done"}
    /\ \E t \in Texts, e \in Endpoints, k \in Keys :
          /\ <<t, e, k>> # <<user_text, endpoint, api_key>>
          /\ user_text' = t
          /\ endpoint' = e
          /\ api_key' = k
          /\ display' = IdleRender(t, e, k)
    /\ pc' = "idle"
    /\ step' = 0
    /\ inflight' = {}
    /\ calls' = <<>>
    /\ result' = NoResults
    /\ exc' = NoExc
    /\ UNCHANGED <<client, documents, mock, log>>

\* app.py:65-70  the button is on the page only under the guard; pressing it
\* runs the script again and enters the try block.
Click ==
    /\ pc \in {"idle", "done"}
    /\ Guard(user_text, endpoint, api_key)
    /\ pc' = "try"
    /\ step' = 0
    /\ display' = <<Rec("button", "Analyze Text", <<>>)>>
    /\ inflight' = {}
    /\ calls' = <<>>
    /\ result' = NoResults
    /\ exc' = NoExc
    /\ UNCHANGED <<user_text, endpoint, api_key, client, documents, mock, log>>

\* app.py:72-77
CreateClient ==
    /\ pc = "try"
    /\ client' = Client(endpoint, api_key)
    /\ documents' = Documents(user_text)
    /\ pc' = "ready"
    /\ step' = 1
    /\ UNCHANGED <<user_text, endpoint, api_key, inflight, calls, result, exc,
                   display, mock, log>>

\* app.py:80-81, 108-109, 124-125, 137-138, 157-159: the section's subheader
\* is written, then the call is issued and the run blocks on it.
Issue ==
    /\ pc = "ready"
    /\ display' = Append(display, Subheader(step))
    /\ inflight' = inflight \cup {Ops[step]}
    /\ calls' = Append(calls, [op |-> Ops[step], client |-> client, documents |-> documents])
    /\ pc' = "await"
    /\ UNCHANGED <<user_text, endpoint, api_key, step, client, documents, result,
                   exc, mock, log>>

\* The call of the current step returns res or raises it.
ReturnStep(res) ==
    /\ pc = "await"
    /\ inflight' = inflight \ {Ops[step]}
    /\ result' = [result EXCEPT ![step] = res]
    /\ step' = NextStep(step, res.ok)
    /\ pc' = IF step' = 0 THEN "done" ELSE "ready"
    /\ IF res.ok
       THEN /\ display' = display \o Render(step, res)
            /\ exc' = exc
       ELSE /\ exc' = [step |-> step, cause |-> res.cause]
            /\ display' = IF Handler(step) = "inner"
                          THEN OnInnerExcept(display)
                          ELSE OnOuterExcept(display, res)
    /\ UNCHANGED <<user_text, endpoint, api_key, client, documents, calls>>

Return ==
    /\ \E res \in Responses(step) : ReturnStep(res)
    /\ UNCHANGED <<mock, log>>

Next == SetInput \/ Click \/ CreateClient \/ Issue \/ Return

Spec == Init /\ [][Next]_vars

\* Each step of a run is taken once it is enabled: the script is executed
\* statement by statement and each remote call eventually returns or raises.
SpecLive == Spec /\ WF_vars(CreateClient) /\ WF_vars(Issue) /\ WF_vars(Return)

\* The request of the run
Request == <<user_text, endpoint, api_key>>

\* Against the deterministic service the call returns what the mock fixes for
\* the operation; a run that ends is entered in the log.
DetReturn ==
    /\ ReturnStep(mock[step])
    /\ mock' = mock
    /\ log' = IF pc' = "done"
              THEN log \cup {[req |-> Request, calls |-> calls', display |-> display',
                              again |-> \E a \in log : a.req = Request]}
              ELSE log

NextDet == SetInput \/ Click \/ CreateClient \/ Issue \/ DetReturn

SpecDet == InitDet /\ [][NextDet]_vars

(***************************************************************************)
(* The states of the analysis cycle, read off the run                      *)
(***************************************************************************)
Idle == pc = "idle"
Requesting == pc \in {"try", "ready", "await"}
Terminal == pc = "done"

Shown(rec) == \E i \in DOMAIN display : display[i] = rec
CountOf(w, msg) == Cardinality({i \in DOMAIN display : display[i].w = w /\ display[i].msg = msg})
ErrorShown == \E i \in DOMAIN display : display[i].w = "error"

PiiDetectedShown == CountOf("warning", "PII entities detected") > 0
PiiNoneShown == CountOf("success", "No personal information detected") > 0
PiiUnavailableShown == CountOf("info", "PII detection not available for this language") > 0
PiiOutcomes ==
    {o \in {"Detected", "None", "Unavailable"} :
        \/ o = "Detected" /\ PiiDetectedShown
        \/ o = "None" /\ PiiNoneShown
        \/ o = "Unavailable" /\ PiiUnavailableShown}

\* the run reached the end of the try block: the report has its pii field
Succeeded == Terminal /\ PiiOutcomes # {}
\* the outer handler ran: the fatal error is on the page
Failed == Terminal /\ ErrorShown

(***************************************************************************)
(* What the page shows of each section                                     *)
(***************************************************************************)
\* the widgets' texts that belong to section k
SectionMsgs(k) ==
    CASE k = 1 -> {"Sentiment Analysis", "Positive", "Negative", "Neutral"}
      [] k = 2 -> {"Key Phrases", "phrases_html", "No key phrases detected"}
      [] k = 3 -> {"Language", "Confidence"}
      [] k = 4 -> {"Named Entities", "entity_data", "No entities detected"}
      [] OTHER -> {"Personal Information (PII)", "PII entities detected", "pii_data",
                   "No personal information detected",
                   "PII detection not available for this language"}

\* section k left no trace: no call, no result, no widget
NotAttempted(k) ==
    /\ \A i \in DOMAIN calls : calls[i].op # Ops[k]
    /\ result[k] = NoResp
    /\ \A i \in DOMAIN display : display[i].msg \notin SectionMsgs(k)

CallOps == [i \in DOMAIN calls |-> calls[i].op]
IsPrefix(s, t) == Len(s) <= Len(t) /\ \A i \in DOMAIN s : s[i] = t[i]

\* the page after sections 1..k have been written in full
RECURSIVE PageUpTo(_)
PageUpTo(k) ==
    IF k = 0 THEN <<Rec("button", "Analyze Text", <<>>)>>
    ELSE PageUpTo(k - 1) \o <<Subheader(k)>> \o Render(k, result[k])

(***************************************************************************)
(* Claims                                                                  *)
(***************************************************************************)

\* C1: when step k of steps 1-4 is the first whose call fails, no call of a
\* later step (PII included) is issued, the cycle ends Failed with the fatal
\* error, and every step after k is left not attempted: none of its widgets,
\* no empty-but-successful notice, no PII outcome.
ThmC1 ==
    \A k \in 1..4 :
        exc.step = k =>
            /\ Terminal /\ Failed /\ ~Succeeded
            /\ inflight = {}
            /\ Len(calls) = k
            /\ \A i \in 1..k : calls[i].op = Ops[i]
            /\ \A j \in (k + 1)..5 : NotAttempted(j)
            /\ PiiOutcomes = {}
WitC1 == exc.step = 3 /\ exc.cause = "Network" /\ Terminal

\* C2: when steps 1-4 succeed and the PII call fails, the cycle is Succeeded
\* with pii = Unavailable; neither the error widget nor the credentials hint
\* is written, and the PII section holds the informational notice alone.
ThmC2 ==
    exc.step = 5 =>
        /\ Terminal /\ Succeeded /\ ~Failed
        /\ \A k \in 1..4 : result[k].ok
        /\ PiiOutcomes = {"Unavailable"}
        /\ ~ErrorShown
        /\ ~Shown(CredentialsHint)
        /\ display = PageUpTo(4) \o <<Subheader(5), PiiUnavailable>>
        /\ PiiUnavailable.w = "info"
WitC2 == exc.step = 5 /\ exc.cause = "Auth" /\ Terminal

\* C3: the calls of a cycle are a prefix of the fixed order, each operation
\* at most once; a call is issued only when nothing is in flight and the
\* previous call has returned; at most one call is in flight.
ThmC3 ==
    /\ [](/\ IsPrefix(CallOps, Ops)
          /\ Cardinality(inflight) <= 1
          /\ inflight # {} => inflight = {CallOps[Len(calls)]})
    /\ [][calls' # calls /\ calls' # <<>> =>
            /\ inflight = {}
            /\ Len(calls') = Len(calls) + 1
            /\ \A i \in DOMAIN calls : calls'[i] = calls[i] /\ result[i].ok]_vars
WitC3 == Len(calls) = 5 /\ pc = "await"

\* C4: the key phrases and the entities on the page are the first min(10, n)
\* elements of the provider's list of length n, in the provider's order.
ThmC4 ==
    /\ result[2].ok =>
          LET given == result[2].list
              n == Len(given)
              at == {i \in DOMAIN display : display[i].msg = "phrases_html"}
          IN  /\ Cardinality(at) = (IF n = 0 THEN 0 ELSE 1)
              /\ \A i \in at :
                    /\ Len(display[i].items) = (IF n < 10 THEN n ELSE 10)
                    /\ \A j \in DOMAIN display[i].items :
                          display[i].items[j] = <<"span", given[j]>>
    /\ result[4].ok =>
          LET given == result[4].list
              n == Len(given)
              at == {i \in DOMAIN display : display[i].msg = "entity_data"}
          IN  /\ Cardinality(at) = (IF n = 0 THEN 0 ELSE 1)
              /\ \A i \in at :
                    /\ Len(display[i].items) = (IF n < 10 THEN n ELSE 10)
                    /\ \A j \in DOMAIN display[i].items :
                          /\ display[i].items[j].Entity = given[j].text
                          /\ display[i].items[j].Category = given[j].category
WitC4 == result[2].ok /\ Len(result[2].list) = 11 /\ result[4].ok /\ Len(result[4].list) = 11

\* C5: Requesting is entered, and a remote call is issued, only when text,
\* endpoint and API key are all non-empty and the button was pressed; with
\* any of them empty the system is Idle and no call has been issued.
ThmC5 ==
    /\ [](LET present == user_text # "" /\ endpoint # "" /\ api_key # ""
          IN  /\ (Requesting \/ calls # <<>> \/ inflight # {}) => present
              /\ ~present => Idle /\ calls = <<>> /\ inflight = {})
    /\ [][Requesting' /\ ~Requesting =>
            /\ user_text # "" /\ endpoint # "" /\ api_key # ""
            /\ pc' = "try" /\ calls' = <<>>
            /\ UNCHANGED <<user_text, endpoint, api_key>>]_vars
WitC5 == pc = "await" /\ step = 1 /\ user_text = " "

\* C6: a cycle that reaches the PII step shows exactly one PII outcome:
\* Detected for a returned non-empty list, None for a returned empty list,
\* Unavailable for a failed call.
ThmC6 ==
    (Terminal /\ Len(calls) = 5) =>
        /\ Cardinality(PiiOutcomes) = 1
        /\ CountOf("warning", "PII entities detected")
             + CountOf("success", "No personal information detected")
             + CountOf("info", "PII detection not available for this language") = 1
        /\ (result[5].ok /\ result[5].list # <<>>) => PiiOutcomes = {"Detected"}
        /\ (result[5].ok /\ result[5].list = <<>>) => PiiOutcomes = {"None"}
        /\ ~result[5].ok => PiiOutcomes = {"Unavailable"}
WitC6 == Terminal /\ Len(calls) = 5 /\ result[5].ok /\ result[5].list = <<>>

\* C7 as stated: the reported fatal outcome is the same whatever the cause
\* and the failing step: what is reported equals what any other cause would
\* have reported.
C7AsStated ==
    Failed =>
        \A c \in Causes :
            \A i \in DOMAIN display :
                display[i].w = "error" => display[i].msg = "Error: " \o ExcText(c)

\* C7 amended: whichever of steps 1-4 fails and whatever the cause, the cycle
\* reports one error widget followed by the one fixed credentials hint, as
\* the last two widgets; the error text is the fixed prefix followed by the
\* exception's own text, and depends on nothing else.
ThmC7 ==
    Failed =>
        LET n == Len(display)
        IN  /\ exc.step \in 1..4
            /\ Cardinality({i \in DOMAIN display : display[i].w = "error"}) = 1
            /\ CountOf("info", "Make sure your credentials are correct") = 1
            /\ display[n - 1].w = "error"
            /\ display[n - 1].msg = "Error: " \o ExcText(exc.cause)
            /\ display[n - 1].items = <<>>
            /\ display[n] = Rec("info", "Make sure your credentials are correct", <<>>)
WitC7 == Failed /\ exc.step = 4 /\ exc.cause = "Network"

\* C8: two cycles run with the same request against the deterministic
\* service issue the same calls and write the same page.
ThmC8 ==
    \A a \in log : \A b \in log :
        a.req = b.req => a.calls = b.calls /\ a.display = b.display
WitC8 ==
    \E a \in log :
        /\ a.again
        /\ a.req[1] = "I love it"
        /\ \E i \in DOMAIN a.display : a.display[i].msg = "pii_data"

ThmC10 ==
    /\ [](\A k \in 2..4 :
            exc.step = k =>
                /\ Terminal
                /\ Len(display) = Len(PageUpTo(k - 1)) + 3
                /\ IsPrefix(PageUpTo(k - 1), display)
                /\ display[Len(display) - 2] = Subheader(k)
                /\ display[Len(display) - 1].w = "error"
                /\ display[Len(display)] = CredentialsHint)
    /\ [](pc \in {"ready", "await"} =>
            display = PageUpTo(step - 1) \o (IF pc = "await" THEN <<Subheader(step)>> ELSE <<>>))
    /\ [][Requesting /\ pc' # "try" /\ pc' # "idle" =>
            IsPrefix(display, display')]_vars
WitC10 == exc.step = 3 /\ Terminal /\ Len(result[2].list) = 2

====
